---------------------------- MODULE Spec2Model ----------------------------
(***************************************************************************)
(* Model of the essay evaluation backend (src/unnamed/part_000): the       *)
(* heuristic engine evaluateEssayAI, the Essay schema, and the handlers of *)
(* the /api/essays routes over the Essay collection.                       *)
(*                                                                         *)
(* Representation.  A text is a sequence of character codes (ASCII).       *)
(* Math.random() is a draw k in 0..RandSteps-1 standing for k/RandSteps;   *)
(* every score computed from a draw is an integer number of "units" of     *)
(* 1/RandSteps, so 70 is 70*RandSteps units.  The reported overallScore    *)
(* (Math.round(x*10)/10) is an integer number of tenths.                   *)
(***************************************************************************)
EXTENDS Integers, Sequences, FiniteSets, TLC

VARIABLES
    essayText, features, draws, results, phase,   \* one call of evaluateEssayAI
    essays,      \* the Essay collection: _id -> document
    nextId,      \* the next _id the driver generates
    request,     \* the request being handled, if any
    response,    \* the response to the last request handled
    engineRan,   \* whether the handler of the last request called the engine
    storeFailed, \* whether a store operation of the last request failed
    nodeEnv,     \* process.env.NODE_ENV
    handled,     \* the number of requests handled so far
    calls,       \* concurrent calls of POST /api/essays/evaluate
    stats,       \* a call of GET /api/stats concurrent with them
    seen         \* the states the store went through while that call read it

engineVars == <<essayText, features, draws, results, phase>>

serverVars == <<essays, nextId, request, response, engineRan, storeFailed, nodeEnv, handled>>

concVars == <<calls, stats, seen>>

vars == <<essayText, features, draws, results, phase,
          essays, nextId, request, response, engineRan, storeFailed, nodeEnv, handled,
          calls, stats, seen>>

(***************************************************************************)
(* Bounds of the model.                                                    *)
(***************************************************************************)
RandSteps == 16
MaxPad == 1
MaxId == 2
MaxRequests == 3
NCalls == 2

(***************************************************************************)
(* Characters and the String methods the code uses.                        *)
(***************************************************************************)
WhiteSpace == {9, 10, 11, 12, 13, 32}
SentenceEnd == {46, 33, 63}
SPACE == 32
DOT == 46

Max(a, b) == IF a >= b THEN a ELSE b
Min(a, b) == IF a <= b THEN a ELSE b

\* String.prototype.trim: the text between its first and its last character
\* that is not white space
Trim(s) ==
    IF \A i \in 1..Len(s) : s[i] \in WhiteSpace THEN <<>>
    ELSE LET first == CHOOSE i \in 1..Len(s) :
                          s[i] \notin WhiteSpace /\ \A j \in 1..(i - 1) : s[j] \in WhiteSpace
             last == CHOOSE i \in 1..Len(s) :
                         s[i] \notin WhiteSpace /\ \A j \in (i + 1)..Len(s) : s[j] \in WhiteSpace
         IN  SubSeq(s, first, last)

\* String.prototype.toLowerCase
ToLowerCase(s) ==
    [i \in 1..Len(s) |-> IF s[i] >= 65 /\ s[i] <= 90 THEN s[i] + 32 ELSE s[i]]

Front(q) == SubSeq(q, 1, Len(q) - 1)
Last(q) == q[Len(q)]

\* String.prototype.split(/[sep]+/): the pieces between maximal runs of
\* separator characters; a leading or trailing run leaves an empty piece,
\* and the empty string splits into one empty piece.  The pieces of
\* s[lo..hi] are those of its two halves, the piece that ends the left half
\* joined to the piece that starts the right half (one run of separators
\* when both are empty because the run spans the cut).
RECURSIVE SplitSeg(_, _, _, _)
SplitSeg(s, sep, lo, hi) ==
    IF lo > hi THEN << <<>> >>
    ELSE IF lo = hi THEN (IF s[lo] \in sep THEN << <<>>, <<>> >> ELSE << <<s[lo]>> >>)
    ELSE LET mid == (lo + hi) \div 2
             L == SplitSeg(s, sep, lo, mid)
             R == SplitSeg(s, sep, mid + 1, hi)
         IN  IF s[mid] \in sep /\ s[mid + 1] \in sep
             THEN Front(L) \o Tail(R)
             ELSE Front(L) \o <<Last(L) \o Head(R)>> \o Tail(R)

Split(s, sep) == SplitSeg(s, sep, 1, Len(s))

\* Array.prototype.filter(s => s.trim().length > 0)
IsNonBlank(piece) == Len(Trim(piece)) > 0
NonBlank(ps) == SelectSeq(ps, IsNonBlank)

(***************************************************************************)
(* evaluateEssayAI, lines 116-216.  Features is the text analysis of       *)
(* lines 117-119 and 134-136; Assess is the scoring and the feedback of    *)
(* lines 121-215 given the six Math.random() draws rnd[1..6] in call order.*)
(***************************************************************************)
Range(q) == {q[i] : i \in DOMAIN q}

Features(text) ==
    LET words == Split(ToLowerCase(text), WhiteSpace)
    IN  [wordCount  |-> Len(Split(Trim(text), WhiteSpace)),
         charCount  |-> Len(text),
         sentences  |-> NonBlank(Split(text, SentenceEnd)),
         uniqueSize |-> Cardinality(Range(words)),
         wordsLen   |-> Len(words)]

\* avgSentenceLength = wordCount / sentences.length compared with a constant;
\* a division by zero is Infinity in JavaScript (wordCount is at least 1).
AvgAtLeast(f, k) == Len(f.sentences) = 0 \/ f.wordCount >= k * Len(f.sentences)
AvgAtMost(f, k) == Len(f.sentences) # 0 /\ f.wordCount <= k * Len(f.sentences)
AvgAbove(f, k) == ~AvgAtMost(f, k)
AvgBelow(f, k) == ~AvgAtLeast(f, k)

\* vocabularyRichness = uniqueWords.size / words.length > pct/100
RichnessAbove(f, pct) == f.uniqueSize * 100 > pct * f.wordsLen

\* lines 121-139 with the length rule applied to the character count
baseScoreByChars(f) ==
    70
    + (IF f.charCount >= 300 /\ f.charCount <= 800 THEN 10
       ELSE IF f.charCount < 100 THEN -15 ELSE 0)
    + (IF AvgAtLeast(f, 15) /\ AvgAtMost(f, 25) THEN 5 ELSE 0)
    + (IF RichnessAbove(f, 60) THEN 8 ELSE 0)

\* lines 121-139
baseScore(f) ==
    70
    + (IF f.wordCount >= 300 /\ f.wordCount <= 800 THEN 10
       ELSE IF f.wordCount < 100 THEN -15 ELSE 0)
    + (IF AvgAtLeast(f, 15) /\ AvgAtMost(f, 25) THEN 5 ELSE 0)
    + (IF RichnessAbove(f, 60) THEN 8 ELSE 0)

\* Math.random() * width - offset, in units
Spread(k, width, offset) == k * width - offset * RandSteps

\* the clamp of line 142 without its lower limit
overallScoreNoFloor(f, k) ==
    Min(98 * RandSteps, baseScore(f) * RandSteps + Spread(k, 12, 6))

\* lines 141-142, in units
overallScore(f, k) ==
    Max(50 * RandSteps, Min(98 * RandSteps, baseScore(f) * RandSteps + Spread(k, 12, 6)))

\* one breakdown category, lines 145-149, in units
Category(overall, k, width, offset) ==
    Min(100 * RandSteps, overall + Spread(k, width, offset))

\* the last category, line 149
Arguments(overall, k) == Category(overall, k, 15, 7)

\* Math.round(x * 10) / 10 of a score in units, as a number of tenths
Round1(x) == (20 * x + RandSteps) \div (2 * RandSteps)

DefaultStrengths == <<"Clear writing style", "Good effort in addressing the topic">>
DefaultImprovements ==
    <<"Continue refining your arguments", "Consider adding more specific examples">>
DefaultSuggestions ==
    <<[original |-> "Sample text for improvement",
       improved |-> "Enhanced version with better structure and vocabulary",
       reason   |-> "Improved clarity and impact"]>>

When(c, item) == IF c THEN <<item>> ELSE <<>>

\* lines 152-166
Strengths(f, b) ==
    When(b.grammar > 85 * RandSteps, "Excellent grammar with minimal errors")
    \o When(b.structure > 80 * RandSteps,
            "Well-organized essay structure with clear progression")
    \o When(f.wordCount > 500, "Comprehensive coverage of the topic")
    \o When(RichnessAbove(f, 65), "Rich and varied vocabulary usage")

\* lines 168-179
Improvements(f, b) ==
    When(b.coherence < 75 * RandSteps, "Improve logical flow between paragraphs")
    \o When(AvgAbove(f, 30), "Consider breaking down complex sentences for clarity")
    \o When(f.wordCount < 300, "Expand arguments with more supporting evidence")
    \o When(b.arguments < 80 * RandSteps,
            "Strengthen main arguments with specific examples")

\* lines 181-192: only index 0 of sentences.slice(0, 3) can push
Suggestions(f) ==
    IF Len(f.sentences) > 0 /\ Len(Trim(f.sentences[1])) < 80
    THEN <<[original |-> Trim(f.sentences[1]) \o <<DOT>>,
            improved |-> "Consider expanding your opening statement to provide more context and engage the reader immediately.",
            reason   |-> "Stronger opening statement"]>>
    ELSE <<>>

\* lines 194-199
Readability(f) ==
    IF AvgBelow(f, 15) THEN "High School Level"
    ELSE IF AvgAbove(f, 25) THEN "Graduate Level"
    ELSE "College Level"

\* the list as it is, no default substituted
OrDefaultMissing(list, default) == list

OrDefault(list, default) == IF Len(list) > 0 THEN list ELSE default

\* lines 141-215
Assess(f, rnd) ==
    LET overall == overallScore(f, rnd[1])
        breakdown == [grammar    |-> Category(overall, rnd[2], 10, 5),
                      structure  |-> Category(overall, rnd[3], 8, 4),
                      coherence  |-> Category(overall, rnd[4], 12, 6),
                      vocabulary |-> Category(overall, rnd[5], 10, 5),
                      arguments  |-> Arguments(overall, rnd[6])]
    IN  [overallScore      |-> Round1(overall),
         breakdown         |-> breakdown,
         strengths         |-> OrDefault(Strengths(f, breakdown), DefaultStrengths),
         improvements      |-> OrDefault(Improvements(f, breakdown), DefaultImprovements),
         suggestions       |-> OrDefault(Suggestions(f), DefaultSuggestions),
         wordCount         |-> f.wordCount,
         charCount         |-> f.charCount,
         readability       |-> Readability(f),
         estimatedReadTime |-> (f.wordCount + 199) \div 200]

evaluateEssayAI(text, rnd) == Assess(Features(text), rnd)

(***************************************************************************)
(* Input texts of the engine.                                              *)
(***************************************************************************)
\* the x-th two-letter token: aa, ab, ..., az, ba, ...
Token(x) == <<97 + (x \div 26), 97 + (x % 26)>>

\* word j of an essay over nDistinct tokens; a repeated token is capitalised
WordAt(j, nDistinct) ==
    LET t == Token(j % nDistinct)
    IN  IF j >= nDistinct THEN <<t[1] - 32, t[2]>> ELSE t

\* words lo..hi of the essay, word j followed by a full stop when it ends a
\* sentence and preceded by a space unless it is the first
RECURSIVE EssaySeg(_, _, _, _)
EssaySeg(lo, hi, nDistinct, perSentence) ==
    IF lo > hi THEN <<>>
    ELSE IF lo = hi
         THEN (IF lo > 0 THEN <<SPACE>> ELSE <<>>)
              \o WordAt(lo, nDistinct)
              \o (IF (lo + 1) % perSentence = 0 THEN <<DOT>> ELSE <<>>)
    ELSE LET mid == (lo + hi) \div 2
         IN  EssaySeg(lo, mid, nDistinct, perSentence)
             \o EssaySeg(mid + 1, hi, nDistinct, perSentence)

\* nWords words over nDistinct tokens, a full stop after every perSentence-th
Essay(nWords, nDistinct, perSentence) == EssaySeg(0, nWords - 1, nDistinct, perSentence)

Repeat(unit, n) == [i \in 1..(n * Len(unit)) |-> unit[((i - 1) % Len(unit)) + 1]]

Pad(n) == [i \in 1..n |-> SPACE]

EngineBodies ==
    { Essay(3, 3, 3), Essay(12, 4, 100), Essay(40, 30, 20), Essay(40, 24, 20),
      Essay(120, 60, 40), Essay(300, 190, 20), Essay(300, 150, 28),
      Essay(520, 325, 26), Essay(801, 100, 20), Essay(5, 3, 100),
      Repeat(<<33>>, 12), Repeat(<<119, 111, 114, 100, 32>>, 60) }

EngineTexts ==
    { Pad(pad[1]) \o b \o Pad(pad[2]) :
        pad \in {q \in (0..MaxPad) \X (0..MaxPad) : q[1] = 0 \/ q[2] = 0 \/ q[1] = q[2]},
        b \in EngineBodies }

DrawVals == {0, RandSteps \div 2, RandSteps - 1}

EngineDraws ==
    { <<k>> \o q : k \in 0..(RandSteps - 1), q \in [1..5 -> DrawVals] }

(***************************************************************************)
(* The Essay schema (lines 55-108) and the documents of the collection.    *)
(* An optional value of a request body is <<>> when absent and <<v>> when  *)
(* present.  The timestamps and userId are not modelled.                   *)
(***************************************************************************)
Absent == <<>>
Some(v) == <<v>>
IsPresent(o) == o # <<>>
Value(o) == o[1]

Levels == {"undergrad", "mba"}
Statuses == {"draft", "evaluated", "archived"}
MinLength == 10

\* the paths of the nested results of the schema, lines 82-100: a field of
\* the value assigned that is no path of the schema is not stored
SchemaResults(r) ==
    [overallScore      |-> r.overallScore,
     breakdown         |-> r.breakdown,
     strengths         |-> r.strengths,
     improvements      |-> r.improvements,
     suggestions       |-> r.suggestions,
     readability       |-> r.readability,
     estimatedReadTime |-> r.estimatedReadTime]

\* new Essay({...}) without its results
NewEssayNoResults(text, university, level, res) ==
    [text       |-> text,
     university |-> IF IsPresent(university) /\ Value(university) # ""
                    THEN Value(university) ELSE "",
     level      |-> IF IsPresent(level) /\ Value(level) # ""
                    THEN Value(level) ELSE "undergrad",
     wordCount  |-> res.wordCount,
     charCount  |-> res.charCount,
     results    |-> [none |-> TRUE],
     status     |-> "evaluated"]

\* new Essay({...}) left at the default status of the schema
NewEssayDraft(text, university, level, res) ==
    [text       |-> text,
     university |-> IF IsPresent(university) /\ Value(university) # ""
                    THEN Value(university) ELSE "",
     level      |-> IF IsPresent(level) /\ Value(level) # ""
                    THEN Value(level) ELSE "undergrad",
     wordCount  |-> res.wordCount,
     charCount  |-> res.charCount,
     results    |-> SchemaResults(res),
     status     |-> "draft"]

\* new Essay({...}), lines 312-320
NewEssay(text, university, level, res) ==
    [text       |-> text,
     university |-> IF IsPresent(university) /\ Value(university) # ""
                    THEN Value(university) ELSE "",
     level      |-> IF IsPresent(level) /\ Value(level) # ""
                    THEN Value(level) ELSE "undergrad",
     wordCount  |-> res.wordCount,
     charCount  |-> res.charCount,
     results    |-> SchemaResults(res),
     status     |-> "evaluated"]

\* the validators of the schema on a document being saved
ValidEssay(doc) ==
    /\ Len(doc.text) >= MinLength
    /\ doc.level \in Levels
    /\ doc.status \in Statuses

\* the guard of line 303 without the trim
TextRejectedNoTrim(text) ==
    \/ ~IsPresent(text)
    \/ Value(text) = <<>>
    \/ Len(Value(text)) < MinLength

\* !text || text.trim().length < 10, line 303
TextRejected(text) ==
    \/ ~IsPresent(text)
    \/ Value(text) = <<>>
    \/ Len(Trim(Value(text))) < MinLength

\* updateData without the counts of lines 346-348
UpdateDataNoCounts(text, university, level, status) ==
    [text       |-> IF IsPresent(text) /\ Value(text) # <<>> THEN text ELSE Absent,
     wordCount  |-> Absent,
     charCount  |-> Absent,
     university |-> university,
     level      |-> IF IsPresent(level) /\ Value(level) # "" THEN level ELSE Absent,
     status     |-> IF IsPresent(status) /\ Value(status) # "" THEN status ELSE Absent]

\* updateData, lines 343-352: the paths the update sets
UpdateData(text, university, level, status) ==
    LET hasText == IsPresent(text) /\ Value(text) # <<>>
    IN  [text       |-> IF hasText THEN text ELSE Absent,
         wordCount  |-> IF hasText
                        THEN Some(Len(Split(Trim(Value(text)), WhiteSpace)))
                        ELSE Absent,
         charCount  |-> IF hasText THEN Some(Len(Value(text))) ELSE Absent,
         university |-> university,
         level      |-> IF IsPresent(level) /\ Value(level) # "" THEN level ELSE Absent,
         status     |-> IF IsPresent(status) /\ Value(status) # "" THEN status ELSE Absent]

\* runValidators: the validators of the paths the update sets, line 357
ValidUpdate(u) ==
    /\ IsPresent(u.text) => Len(Value(u.text)) >= MinLength
    /\ IsPresent(u.level) => Value(u.level) \in Levels
    /\ IsPresent(u.status) => Value(u.status) \in Statuses

\* the document after the update: each path set replaces the stored value
ApplyUpdate(doc, u) ==
    [text       |-> IF IsPresent(u.text) THEN Value(u.text) ELSE doc.text,
     university |-> IF IsPresent(u.university) THEN Value(u.university) ELSE doc.university,
     level      |-> IF IsPresent(u.level) THEN Value(u.level) ELSE doc.level,
     wordCount  |-> IF IsPresent(u.wordCount) THEN Value(u.wordCount) ELSE doc.wordCount,
     charCount  |-> IF IsPresent(u.charCount) THEN Value(u.charCount) ELSE doc.charCount,
     results    |-> doc.results,
     status     |-> IF IsPresent(u.status) THEN Value(u.status) ELSE doc.status]

Stored(id) == [id |-> id, doc |-> essays[id]]

(***************************************************************************)
(* Responses, res.status(...).json(...).                                   *)
(***************************************************************************)
Reply(status, error, message, data) ==
    [status |-> status, error |-> error, message |-> message, data |-> data]

\* the message of the error caught
Detail == "error.message"

\* the catch block of a handler: 500 with message: error.message
Failure(error) == Reply(500, error, Detail, Absent)

\* the error middleware, lines 437-444
InternalServerError(env) ==
    Reply(500, "Internal Server Error",
          IF env = "development" THEN Detail ELSE "Something went wrong", Absent)

NotFound == Reply(404, "Essay not found", "", Absent)

TooShort == Reply(400, "Essay text must be at least 10 characters long", "", Absent)

NoReply == Reply(0, "", "", Absent)

(***************************************************************************)
(* Requests.                                                               *)
(***************************************************************************)
Req(op, id, text, university, level, status) ==
    [op |-> op, id |-> id, text |-> text, university |-> university,
     level |-> level, status |-> status]

NoRequest == Req("none", 0, Absent, Absent, Absent, Absent)

\* "hi"
TextHi == <<104, 105>>
\* "  short   ": ten characters, five when trimmed
TextPadded == <<32, 32, 115, 104, 111, 114, 116, 32, 32, 32>>
\* ten spaces
TextBlank == Pad(MinLength)
\* "I like cats"
TextCats == <<73, 32, 108, 105, 107, 101, 32, 99, 97, 116, 115>>
\* " Hello brave  new world. "
TextHello ==
    <<32, 72, 101, 108, 108, 111, 32, 98, 114, 97, 118, 101, 32, 32,
      110, 101, 119, 32, 119, 111, 114, 108, 100, 46, 32>>

EvaluateTexts ==
    {Absent, Some(<<>>), Some(TextHi), Some(TextPadded), Some(TextCats), Some(TextHello)}
UpdateTexts == {Absent, Some(TextHi), Some(TextBlank), Some(TextHello)}
LevelInputs == {Absent, Some("mba"), Some("phd")}
StatusInputs == {Absent, Some("archived"), Some("bogus")}
UniversityInputs == {Absent, Some("MIT")}
Ids == 1..MaxId
\* a req.params.id that is no ObjectId: the cast of the query throws
MalformedId == -1
HttpDraws == {[i \in 1..6 |-> 0], [i \in 1..6 |-> RandSteps - 1]}

Requests ==
    {Req("evaluate", 0, t, Absent, l, Absent) : t \in EvaluateTexts, l \in LevelInputs}
    \cup {Req("update", id, t, Absent, l, st) :
        id \in Ids, t \in UpdateTexts, l \in LevelInputs, st \in StatusInputs}
    \cup {Req("update", id, Absent, u, Absent, Absent) :
        id \in Ids, u \in UniversityInputs}
    \cup {Req(op, id, Absent, Absent, Absent, Absent) :
        op \in {"get", "update", "delete"}, id \in Ids \cup {MalformedId}}
    \cup {Req("list", 0, Absent, Absent, Absent, st) : st \in {Absent, Some("evaluated")}}
    \cup {Req(op, 0, Absent, Absent, Absent, Absent) : op \in {"stats", "unparsable"}}

(***************************************************************************)
(* The server: a request arrives, then its handler runs to its response.   *)
(* A handler awaits one store operation, which the store applies as one    *)
(* step or fails (dbOk = FALSE).                                           *)
(***************************************************************************)
Receive ==
    /\ request = NoRequest
    /\ handled < MaxRequests
    /\ \E r \in Requests :
          /\ r.op = "evaluate" => nextId <= MaxId
          /\ request' = r
    /\ response' = NoReply
    /\ engineRan' = FALSE
    /\ storeFailed' = FALSE
    /\ UNCHANGED <<essays, nextId, handled>>
    /\ UNCHANGED engineVars
    /\ UNCHANGED nodeEnv
    /\ UNCHANGED concVars

Done(reply) ==
    /\ response' = reply
    /\ request' = NoRequest
    /\ handled' = handled + 1

\* app.post('/api/essays/evaluate'), lines 299-337
EvaluateEssay ==
    /\ request.op = "evaluate"
    /\ IF TextRejected(request.text)
       THEN /\ Done(TooShort)
            /\ engineRan' = FALSE
            /\ UNCHANGED <<essays, nextId, storeFailed>>
       ELSE \E rnd \in HttpDraws, dbOk \in BOOLEAN :
              LET res == evaluateEssayAI(Value(request.text), rnd)
                  essay == NewEssay(Value(request.text), request.university,
                                    request.level, res)
              IN  /\ engineRan' = TRUE
                  /\ nextId' = nextId + 1
                  /\ storeFailed' = (ValidEssay(essay) /\ ~dbOk)
                  /\ IF ValidEssay(essay) /\ dbOk
                     THEN /\ essays' = [id \in DOMAIN essays \cup {nextId} |->
                                          IF id = nextId THEN essay ELSE essays[id]]
                          /\ Done(Reply(201, "", "Essay evaluated successfully",
                                        Some([id |-> nextId, doc |-> essay])))
                     ELSE /\ essays' = essays
                          /\ Done(Failure("Failed to evaluate essay"))
    /\ UNCHANGED engineVars
    /\ UNCHANGED nodeEnv
    /\ UNCHANGED concVars

\* app.put('/api/essays/:id'), lines 339-380
UpdateEssay ==
    /\ request.op = "update"
    /\ \E dbOk \in BOOLEAN :
          LET updateData == UpdateData(request.text, request.university,
                                       request.level, request.status)
              castOk == request.id # MalformedId /\ ValidUpdate(updateData)
          IN  /\ storeFailed' = (castOk /\ ~dbOk)
              /\ IF ~castOk \/ ~dbOk
                 THEN /\ essays' = essays
                      /\ Done(Failure("Failed to update essay"))
                 ELSE IF request.id \notin DOMAIN essays
                 THEN /\ essays' = essays
                      /\ Done(NotFound)
                 ELSE /\ essays' = [essays EXCEPT
                                       ![request.id] = ApplyUpdate(essays[request.id], updateData)]
                      /\ Done(Reply(200, "", "Essay updated successfully",
                                    Some([id |-> request.id,
                                          doc |-> ApplyUpdate(essays[request.id], updateData)])))
    /\ UNCHANGED <<nextId, engineRan>>
    /\ UNCHANGED engineVars
    /\ UNCHANGED nodeEnv
    /\ UNCHANGED concVars

\* app.get('/api/essays/:id'), lines 274-297
GetEssay ==
    /\ request.op = "get"
    /\ \E dbOk \in BOOLEAN :
          /\ storeFailed' = (request.id # MalformedId /\ ~dbOk)
          /\ IF request.id = MalformedId \/ ~dbOk
             THEN Done(Failure("Failed to fetch essay"))
             ELSE IF request.id \notin DOMAIN essays THEN Done(NotFound)
             ELSE Done(Reply(200, "", "", Some(Stored(request.id))))
    /\ UNCHANGED <<essays, nextId, engineRan>>
    /\ UNCHANGED engineVars
    /\ UNCHANGED nodeEnv
    /\ UNCHANGED concVars

\* app.delete('/api/essays/:id'), lines 382-405
DeleteEssay ==
    /\ request.op = "delete"
    /\ \E dbOk \in BOOLEAN :
          /\ storeFailed' = (request.id # MalformedId /\ ~dbOk)
          /\ IF request.id = MalformedId \/ ~dbOk
             THEN /\ essays' = essays
                  /\ Done(Failure("Failed to delete essay"))
             ELSE IF request.id \notin DOMAIN essays
             THEN /\ essays' = essays
                  /\ Done(NotFound)
             ELSE /\ essays' = [id \in DOMAIN essays \ {request.id} |-> essays[id]]
                  /\ Done(Reply(200, "", "Essay deleted successfully", Absent))
    /\ UNCHANGED <<nextId, engineRan>>
    /\ UNCHANGED engineVars
    /\ UNCHANGED nodeEnv
    /\ UNCHANGED concVars

\* Essay.countDocuments(query)
CountDocuments(db, ids) == Cardinality(ids)

\* the query of lines 238-240: the stored ids whose document matches
Matching(db, status, level) ==
    {id \in DOMAIN db :
        /\ IsPresent(status) => db[id].status = Value(status)
        /\ IsPresent(level) => db[id].level = Value(level)}

\* .sort({createdAt: -1}): the latest first
RECURSIVE SortDesc(_)
SortDesc(ids) ==
    IF ids = {} THEN <<>>
    ELSE LET latest == CHOOSE id \in ids : \A other \in ids : other <= id
         IN  <<latest>> \o SortDesc(ids \ {latest})

DefaultPage == 1
DefaultLimit == 10

\* .skip(skip).limit(limit) of lines 242-247
PageOf(q, page, limit) ==
    SubSeq(q, (page - 1) * limit + 1, Min(Len(q), page * limit))

\* Math.ceil(total / limit)
Pages(total, limit) == (total + limit - 1) \div limit

\* app.get('/api/essays'), lines 228-272, with the default page, limit and sort
ListEssays ==
    /\ request.op = "list"
    /\ \E dbOk \in BOOLEAN :
          /\ storeFailed' = ~dbOk
          /\ IF ~dbOk
             THEN Done(Failure("Failed to fetch essays"))
             ELSE LET found == Matching(essays, request.status, request.level)
                      sorted == SortDesc(found)
                      total == CountDocuments(essays, found)
                  IN  Done(Reply(200, "", "",
                           Some([essays |-> [i \in DOMAIN PageOf(sorted, DefaultPage, DefaultLimit) |->
                                               Stored(PageOf(sorted, DefaultPage, DefaultLimit)[i])],
                                 pagination |-> [page |-> DefaultPage, limit |-> DefaultLimit,
                                                 total |-> total,
                                                 pages |-> Pages(total, DefaultLimit)]])))
    /\ UNCHANGED <<essays, nextId, engineRan>>
    /\ UNCHANGED engineVars
    /\ UNCHANGED nodeEnv
    /\ UNCHANGED concVars

\* the documents with results.overallScore, the $match of line 411
WithScore(db) == {id \in DOMAIN db : "overallScore" \in DOMAIN db[id].results}

RECURSIVE SumScores(_, _)
SumScores(db, ids) ==
    IF ids = {} THEN 0
    ELSE LET id == CHOOSE x \in ids : TRUE
         IN  db[id].results.overallScore + SumScores(db, ids \ {id})

\* the $group of line 412: no group when nothing matches, else one group
\* with the mean, kept as sum and count
AvgScore(db) ==
    IF WithScore(db) = {} THEN <<>>
    ELSE <<[sum |-> SumScores(db, WithScore(db)), count |-> Cardinality(WithScore(db))]>>

\* the $group of line 416: one count for each level present
LevelStats(db) ==
    [l \in {db[id].level : id \in DOMAIN db} |->
        Cardinality({id \in DOMAIN db : db[id].level = l})]

ZeroAverage == [sum |-> 0, count |-> 1]

\* lines 419-426: averageScore: avgScore[0]?.avgScore || 0
StatsData(totalEssays, avgScore, levelStats) ==
    [totalEssays  |-> totalEssays,
     averageScore |-> IF Len(avgScore) > 0 /\ avgScore[1].sum # 0
                      THEN avgScore[1] ELSE ZeroAverage,
     byLevel      |-> levelStats]

\* app.get('/api/stats'), lines 407-435, with no other request in flight
GetStats ==
    /\ request.op = "stats"
    /\ \E dbOk \in BOOLEAN :
          /\ storeFailed' = ~dbOk
          /\ IF ~dbOk
             THEN Done(Failure("Failed to fetch statistics"))
             ELSE Done(Reply(200, "", "",
                      Some(StatsData(CountDocuments(essays, DOMAIN essays),
                                     AvgScore(essays), LevelStats(essays)))))
    /\ UNCHANGED <<essays, nextId, engineRan>>
    /\ UNCHANGED engineVars
    /\ UNCHANGED nodeEnv
    /\ UNCHANGED concVars

\* a body express.json() cannot parse: the error middleware, lines 437-444
ErrorMiddleware ==
    /\ request.op = "unparsable"
    /\ Done(InternalServerError(nodeEnv))
    /\ UNCHANGED <<essays, nextId, engineRan, storeFailed>>
    /\ UNCHANGED engineVars
    /\ UNCHANGED nodeEnv
    /\ UNCHANGED concVars

NodeEnvs == {"development", "production"}

Calls == 1..NCalls

\* a call that has not arrived
IdleCall == [pc |-> "idle", text |-> <<>>, level |-> Absent, rnd |-> <<>>,
             id |-> 0, essay |-> <<>>, reply |-> NoReply]

IdleStats == [pc |-> "idle", totalEssays |-> 0, avgScore |-> <<>>, reply |-> NoReply]

ConcIdle ==
    /\ calls = [c \in Calls |-> IdleCall]
    /\ stats = IdleStats
    /\ seen = {}

ServerInit ==
    /\ essays = <<>>
    /\ nextId = 1
    /\ request = NoRequest
    /\ response = NoReply
    /\ engineRan = FALSE
    /\ storeFailed = FALSE
    /\ handled = 0

(***************************************************************************)
(* Specification of the engine alone: evaluateEssayAI applied to a text    *)
(* and six draws, its text analysis and its scoring as two steps.          *)
(***************************************************************************)
NoValue == [none |-> TRUE]

EngineIdle ==
    /\ phase = "idle"
    /\ essayText = <<>>
    /\ features = NoValue
    /\ draws = <<>>
    /\ results = NoValue

\* the engine does not read the environment
EngineInit ==
    /\ EngineIdle
    /\ ServerInit
    /\ ConcIdle
    /\ nodeEnv = "development"

\* lines 117-119, 134-136
EngineExtract ==
    /\ phase = "idle"
    /\ \E text \in EngineTexts :
          /\ essayText' = text
          /\ features' = Features(text)
    /\ phase' = "extracted"
    /\ UNCHANGED <<draws, results>>
    /\ UNCHANGED serverVars
    /\ UNCHANGED concVars

\* lines 121-215
EngineScore ==
    /\ phase = "extracted"
    /\ \E rnd \in EngineDraws :
          /\ draws' = rnd
          /\ results' = Assess(features, rnd)
    /\ phase' = "scored"
    /\ UNCHANGED <<essayText, features>>
    /\ UNCHANGED serverVars
    /\ UNCHANGED concVars

EngineNext == EngineExtract \/ EngineScore

SpecEngine == EngineInit /\ [][EngineNext]_vars

(***************************************************************************)
(* Specification of the server.                                            *)
(***************************************************************************)
Init ==
    /\ ServerInit
    /\ EngineIdle
    /\ ConcIdle
    /\ nodeEnv \in NodeEnvs

Next ==
    \/ Receive
    \/ EvaluateEssay
    \/ UpdateEssay
    \/ GetEssay
    \/ DeleteEssay
    \/ ListEssays
    \/ GetStats
    \/ ErrorMiddleware

Spec == Init /\ [][Next]_vars

(***************************************************************************)
(* Concurrent requests.  A handler runs to its next await without          *)
(* interruption; the store applies the awaited operations one at a time,   *)
(* in any order across the handlers in flight.                             *)
(***************************************************************************)
\* the (text, level, draws) of a concurrent evaluate call: valid texts
ConcInputs ==
    { <<TextCats, Absent, [i \in 1..6 |-> 0]>>,
      <<TextCats, Absent, [i \in 1..6 |-> RandSteps - 1]>>,
      <<TextHello, Some("mba"), [i \in 1..6 |-> RandSteps - 1]>> }

\* one _id for every document
ObjectIdShared(counter) == 1

\* the _id new Essay() generates from the driver's counter
ObjectId(counter) == counter

\* lines 301-320: the handler up to await essay.save()
CallStart(c) ==
    /\ calls[c].pc = "idle"
    /\ \E in \in ConcInputs :
          /\ ~TextRejected(Some(in[1]))
          /\ calls' = [calls EXCEPT ![c] =
                 [pc    |-> "saving",
                  text  |-> in[1],
                  level |-> in[2],
                  rnd   |-> in[3],
                  id    |-> ObjectId(nextId),
                  essay |-> NewEssay(in[1], Absent, in[2], evaluateEssayAI(in[1], in[3])),
                  reply |-> NoReply]]
    /\ nextId' = nextId + 1
    /\ UNCHANGED <<essays, stats, seen>>
    /\ UNCHANGED <<request, response, engineRan, storeFailed, nodeEnv, handled>>
    /\ UNCHANGED engineVars

\* lines 322-336: the store applies the save (or fails) and the handler,
\* resumed, answers from its own essay
CallSave(c) ==
    /\ calls[c].pc = "saving"
    /\ \E dbOk \in BOOLEAN :
          LET call == calls[c]
          IN  IF ValidEssay(call.essay) /\ dbOk
              THEN /\ essays' = [id \in DOMAIN essays \cup {call.id} |->
                                   IF id = call.id THEN call.essay ELSE essays[id]]
                   /\ calls' = [calls EXCEPT ![c].pc = "done",
                                   ![c].reply = Reply(201, "", "Essay evaluated successfully",
                                                      Some([id |-> call.id, doc |-> call.essay]))]
              ELSE /\ essays' = essays
                   /\ calls' = [calls EXCEPT ![c].pc = "done",
                                   ![c].reply = Failure("Failed to evaluate essay")]
    /\ seen' = IF stats.pc \in {"counted", "averaged"} THEN seen \cup {essays'} ELSE seen
    /\ UNCHANGED <<nextId, stats>>
    /\ UNCHANGED <<request, response, engineRan, storeFailed, nodeEnv, handled>>
    /\ UNCHANGED engineVars

StatsFailed == [stats EXCEPT !.pc = "done", !.reply = Failure("Failed to fetch statistics")]

\* line 409: the store answers countDocuments()
StatsCount ==
    /\ stats.pc = "idle"
    /\ \E dbOk \in BOOLEAN :
          stats' = IF dbOk
                   THEN [stats EXCEPT !.pc = "counted",
                           !.totalEssays = CountDocuments(essays, DOMAIN essays)]
                   ELSE StatsFailed
    /\ seen' = {essays}
    /\ UNCHANGED <<essays, nextId, calls>>
    /\ UNCHANGED <<request, response, engineRan, storeFailed, nodeEnv, handled>>
    /\ UNCHANGED engineVars

\* lines 410-413: the store answers the first aggregate
StatsAverage ==
    /\ stats.pc = "counted"
    /\ \E dbOk \in BOOLEAN :
          stats' = IF dbOk
                   THEN [stats EXCEPT !.pc = "averaged", !.avgScore = AvgScore(essays)]
                   ELSE StatsFailed
    /\ UNCHANGED <<essays, nextId, calls, seen>>
    /\ UNCHANGED <<request, response, engineRan, storeFailed, nodeEnv, handled>>
    /\ UNCHANGED engineVars

\* lines 415-426: the store answers the second aggregate and the handler
\* answers
StatsLevels ==
    /\ stats.pc = "averaged"
    /\ \E dbOk \in BOOLEAN :
          stats' = IF dbOk
                   THEN [stats EXCEPT !.pc = "done",
                           !.reply = Reply(200, "", "",
                                       Some(StatsData(stats.totalEssays, stats.avgScore,
                                                      LevelStats(essays))))]
                   ELSE StatsFailed
    /\ UNCHANGED <<essays, nextId, calls, seen>>
    /\ UNCHANGED <<request, response, engineRan, storeFailed, nodeEnv, handled>>
    /\ UNCHANGED engineVars

\* the handlers of these two routes do not read the environment
ConcInit ==
    /\ ServerInit
    /\ EngineIdle
    /\ ConcIdle
    /\ nodeEnv = "production"

ConcNext ==
    \/ \E c \in Calls : CallStart(c)
    \/ \E c \in Calls : CallSave(c)
    \/ StatsCount
    \/ StatsAverage
    \/ StatsLevels

SpecConc == ConcInit /\ [][ConcNext]_vars

(***************************************************************************)
(* Properties of the engine.                                               *)
(***************************************************************************)
\* the score before rounding that the scored state was computed from, in units
RawOverall == overallScore(features, draws[1])

\* C1: for every text of trimmed length at least 10 and every draw of the
\* perturbation, the reported overallScore lies in [50, 98] and is the
\* clamped score rounded to one decimal place (the nearest tenth).
C1_OverallScoreRange ==
    (phase = "scored" /\ Len(Trim(essayText)) >= 10) =>
        /\ results.overallScore >= 500
        /\ results.overallScore <= 980
        /\ 2 * (results.overallScore * RandSteps - 10 * RawOverall) <= RandSteps
        /\ 2 * (10 * RawOverall - results.overallScore * RandSteps) <= RandSteps

\* a valid text whose perturbed score falls below 50 and is reported as 50
C1_Witness ==
    /\ phase = "scored"
    /\ Len(Trim(essayText)) >= 10
    /\ baseScore(features) * RandSteps + Spread(draws[1], 12, 6) < 50 * RandSteps
    /\ results.overallScore = 500

\* category c of the result lies where the claim puts it: at most 100, and
\* when below 100 within [-half, +half) of the reported overallScore; when
\* equal to 100 the reported score plus less than half reaches 100.
WithinHalfWidth(c, half) ==
    LET diff == 10 * results.breakdown[c] - results.overallScore * RandSteps
    IN  /\ results.breakdown[c] <= 100 * RandSteps
        /\ IF results.breakdown[c] < 100 * RandSteps
           THEN diff >= -10 * half * RandSteps /\ diff < 10 * half * RandSteps
           ELSE results.overallScore * RandSteps + 10 * half * RandSteps
                    > 1000 * RandSteps

\* C2: every breakdown category equals min(100, overallScore + d) with the
\* reported overallScore and d within the category's half-width: grammar 5,
\* structure 4, coherence 6, vocabulary 5, arguments 7.
C2_BreakdownHalfWidths ==
    phase = "scored" =>
        /\ WithinHalfWidth("grammar", 5)
        /\ WithinHalfWidth("structure", 4)
        /\ WithinHalfWidth("coherence", 6)
        /\ WithinHalfWidth("vocabulary", 5)
        /\ WithinHalfWidth("arguments", 7)

\* C3: the strengths, improvements and suggestions of every result are
\* non-empty, for every text and every draw.
C3_FeedbackNonEmpty ==
    phase = "scored" =>
        /\ Len(results.strengths) > 0
        /\ Len(results.improvements) > 0
        /\ Len(results.suggestions) > 0

\* no trigger fires for any of the three lists: the defaults are substituted
C3_Witness ==
    /\ phase = "scored"
    /\ Strengths(features, results.breakdown) = <<>>
    /\ Improvements(features, results.breakdown) = <<>>
    /\ Suggestions(features) = <<>>
    /\ results.strengths = DefaultStrengths
    /\ results.improvements = DefaultImprovements
    /\ results.suggestions = DefaultSuggestions

(***************************************************************************)
(* Properties of the server.                                               *)
(***************************************************************************)
\* a step in which the handler of a request of kind op runs to its response
Handles(op) == request.op = op /\ handled' = handled + 1

\* a document carries an assessment
HasAssessment(doc) == "overallScore" \in DOMAIN doc.results

\* the number of whitespace-delimited tokens of a text: its maximal runs of
\* characters that are not white space
TokenCount(s) ==
    Cardinality({i \in 1..Len(s) :
                    s[i] \notin WhiteSpace /\ (i = 1 \/ s[i - 1] \in WhiteSpace)})

\* the text of the request is missing or shorter than 10 when trimmed
TextMissingOrShort ==
    ~IsPresent(request.text) \/ Len(Trim(Value(request.text))) < MinLength

\* C4: an evaluate request whose text is missing or has trimmed length
\* below 10 is answered 400, the engine is not run, and the stored
\* submissions are exactly what they were.
C4_ShortTextRejected ==
    [][(Handles("evaluate") /\ TextMissingOrShort) =>
          /\ response'.status = 400
          /\ ~engineRan'
          /\ essays' = essays]_vars

\* a rejected evaluation with a submission already stored
C4_Witness ==
    /\ response = TooShort
    /\ handled >= 2
    /\ DOMAIN essays # {}

\* C5: an evaluate request that succeeds adds exactly one submission, under a
\* fresh id, with status evaluated and its assessment, and changes no other
\* submission; one that does not succeed is answered with a failure and
\* leaves the collection as it was.
C5_EvaluateAddsOne ==
    [][Handles("evaluate") =>
          IF response'.status = 201
          THEN /\ nextId \notin DOMAIN essays
               /\ nextId' > nextId
               /\ DOMAIN essays' = DOMAIN essays \cup {nextId}
               /\ \A id \in DOMAIN essays : essays'[id] = essays[id]
               /\ essays'[nextId].status = "evaluated"
               /\ HasAssessment(essays'[nextId])
               /\ essays'[nextId].text = Value(request.text)
               /\ response'.data = Some([id |-> nextId, doc |-> essays'[nextId]])
          ELSE /\ response'.status \in {400, 500}
               /\ essays' = essays]_vars

\* a second submission created beside the first
C5_Witness ==
    /\ response.status = 201
    /\ Cardinality(DOMAIN essays) = 2

\* C6 as claimed: every stored submission has status evaluated if and only
\* if it has an assessment.
C6_EvaluatedIffAssessment ==
    \A id \in DOMAIN essays :
        (essays[id].status = "evaluated") <=> HasAssessment(essays[id])

\* C6 as amended: every stored submission with status evaluated has an
\* assessment (an update may set another status and keeps the assessment).
C6_EvaluatedHasAssessment ==
    \A id \in DOMAIN essays :
        (essays[id].status = "evaluated") => HasAssessment(essays[id])

\* one submission still evaluated, another archived with its assessment
C6_Witness ==
    \E id, other \in DOMAIN essays :
        /\ essays[id].status = "evaluated"
        /\ HasAssessment(essays[id])
        /\ essays[other].status = "archived"
        /\ HasAssessment(essays[other])

\* C7: the wordCount of every stored submission is the number of
\* whitespace-delimited tokens of its trimmed text and its charCount the
\* length of its text.
C7_CountsMatchText ==
    \A id \in DOMAIN essays :
        /\ essays[id].wordCount = TokenCount(Trim(essays[id].text))
        /\ essays[id].charCount = Len(essays[id].text)

\* C8: an update that changes the text of a submission stores the counts of
\* the new text and leaves its assessment as it was; the engine is not run.
C8_UpdateKeepsAssessment ==
    [][(/\ Handles("update")
        /\ response'.status = 200
        /\ essays'[request.id].text # essays[request.id].text) =>
          /\ essays'[request.id].text = Value(request.text)
          /\ essays'[request.id].wordCount = Features(Value(request.text)).wordCount
          /\ essays'[request.id].charCount = Len(Value(request.text))
          /\ essays'[request.id].results = essays[request.id].results
          /\ ~engineRan']_vars

\* a submission evaluated as one text, updated to another, with the
\* assessment of the first
C8_Witness ==
    /\ response.status = 200
    /\ response.message = "Essay updated successfully"
    /\ \E id \in DOMAIN essays, rnd \in HttpDraws :
          /\ essays[id].text = TextHello
          /\ essays[id].wordCount = 4
          /\ essays[id].results = SchemaResults(evaluateEssayAI(TextCats, rnd))

\* C9: the record fetched by id after an evaluation carries, in its
\* assessment, a wordCount equal to the wordCount of its stored text.
C9_FetchedAssessmentWordCount ==
    (/\ response.status = 200 /\ response.message = ""
     /\ IsPresent(response.data)
     /\ "doc" \in DOMAIN Value(response.data)) =>
        LET doc == Value(response.data).doc
        IN  /\ "wordCount" \in DOMAIN doc.results
            /\ doc.results.wordCount = Features(doc.text).wordCount

\* the request carries a level or a status outside its enumeration
MalformedEnum ==
    \/ IsPresent(request.level) /\ Value(request.level) \notin Levels
    \/ IsPresent(request.status) /\ Value(request.status) \notin Statuses

\* C10: an evaluate or update request with a malformed level or status is
\* answered 400 and creates or modifies no submission.
C10_MalformedEnumRejected ==
    [][((Handles("evaluate") \/ Handles("update")) /\ MalformedEnum) =>
          /\ response'.status = 400
          /\ essays' = essays]_vars

\* the id of the request names no stored submission
UnknownId == request.id \notin DOMAIN essays

\* C11: a get, update or delete request for an id that names no stored
\* submission is answered 404 (the store answering) and leaves every stored
\* submission unchanged.
C11_UnknownIdNotFound ==
    [][((Handles("get") \/ Handles("update") \/ Handles("delete"))
        /\ UnknownId /\ ~storeFailed') =>
          /\ response'.status = 404
          /\ essays' = essays]_vars

\* "word ".repeat(60) has been evaluated with Math.random() returning 0 for
\* every draw
Word60ZeroDraws ==
    /\ phase = "scored"
    /\ essayText = Repeat(<<119, 111, 114, 100, 32>>, 60)
    /\ draws = [i \in 1..6 |-> 0]

\* C12 as stated: with every draw 0, "word ".repeat(60) gets the +10 length
\* bonus (baseScore at least 80) and a perturbation of zero.
C12_Word60LengthBonus ==
    Word60ZeroDraws =>
        /\ features.wordCount >= 300 /\ features.wordCount <= 800
        /\ baseScore(features) >= 80
        /\ Spread(draws[1], 12, 6) = 0

\* C12 amended: with every draw 0, "word ".repeat(60) is 60 words, gets the
\* -15 length penalty and no bonus (baseScore 55), a perturbation of -6, and
\* the reported overallScore is 50.0 on every evaluation.
C12_Word60Penalty ==
    Word60ZeroDraws =>
        /\ features.wordCount = 60
        /\ features.charCount = 300
        /\ baseScore(features) = 55
        /\ Spread(draws[1], 12, 6) = -6 * RandSteps
        /\ results.overallScore = 500

C12_Witness ==
    /\ Word60ZeroDraws
    /\ results.overallScore = 500

\* the sentence count as C14 states it: at least 1
SentenceCountMin1 == Max(1, Len(features.sentences))

\* C14: avgSentenceLength is wordCount / max(1, number of non-blank
\* fragments), so it is finite, it is wordCount for a text with no non-blank
\* fragment, and readability and the 'breaking down complex sentences'
\* improvement are derived from that value.
C14_SentenceCountAtLeastOne ==
    phase = "scored" =>
        LET wc == features.wordCount
            n  == SentenceCountMin1
        IN  /\ results.readability =
                  (IF wc < 15 * n THEN "High School Level"
                   ELSE IF wc > 25 * n THEN "Graduate Level"
                   ELSE "College Level")
            /\ ("Consider breaking down complex sentences for clarity"
                    \in Range(results.improvements)) <=> (wc > 30 * n)

\* the distinct case-folded whitespace-delimited tokens of the trimmed text
DistinctTokens ==
    Cardinality(Range(Split(ToLowerCase(Trim(essayText)), WhiteSpace)))

\* C15: for every text, also with leading or trailing whitespace, the
\* vocabularyRichness behind the +8 bonus and the 'rich vocabulary' strength
\* is (distinct tokens of the trimmed text) / wordCount, and lies in (0, 1].
C15_RichnessOfTrimmedText ==
    phase = "scored" =>
        /\ features.uniqueSize * features.wordCount
               = DistinctTokens * features.wordsLen
        /\ RichnessAbove(features, 60)
               <=> (DistinctTokens * 100 > 60 * features.wordCount)
        /\ features.uniqueSize > 0
        /\ features.uniqueSize <= features.wordsLen

\* C13: whenever a store operation fails during a request, the caller gets a
\* 500 whose message carries the detail of the error in development mode
\* only.
C13_DetailOnlyInDevelopment ==
    storeFailed =>
        /\ response.status = 500
        /\ (response.message = Detail) <=> (nodeEnv = "development")

(***************************************************************************)
(* Properties of concurrent requests.                                      *)
(***************************************************************************)
Succeeded(c) == calls[c].pc = "done" /\ calls[c].reply.status = 201

\* C16: for any interleaving of concurrent evaluate calls with valid text,
\* each successful call leaves under its own id a submission holding its own
\* text and the assessment of its own text and draws, two successful calls
\* have distinct ids, and the calls having ended there are exactly as many
\* submissions as successful calls.
C16_ConcurrentEvaluations ==
    /\ \A c \in Calls :
          Succeeded(c) =>
              /\ calls[c].id \in DOMAIN essays
              /\ essays[calls[c].id].text = calls[c].text
              /\ essays[calls[c].id].results
                     = SchemaResults(evaluateEssayAI(calls[c].text, calls[c].rnd))
              /\ calls[c].reply.data = Some(Stored(calls[c].id))
    /\ \A c, d \in Calls :
          (Succeeded(c) /\ Succeeded(d) /\ c # d) => calls[c].id # calls[d].id
    /\ (\A c \in Calls : calls[c].pc = "done") =>
          Cardinality(DOMAIN essays) = Cardinality({c \in Calls : Succeeded(c)})

C16_Witness ==
    /\ \A c \in Calls : Succeeded(c)
    /\ \E c, d \in Calls :
          /\ calls[c].text # calls[d].text
          /\ calls[c].rnd = calls[d].rnd
    /\ Cardinality(DOMAIN essays) = NCalls

RECURSIVE SumCounts(_, _)
SumCounts(byLevel, levels) ==
    IF levels = {} THEN 0
    ELSE LET l == CHOOSE x \in levels : TRUE
         IN  byLevel[l] + SumCounts(byLevel, levels \ {l})

\* C17: every successful GET /api/stats response describes one state the
\* store was in during the call: totalEssays is the sum of the byLevel
\* counts and averageScore is the mean overallScore of that state.
C17_StatsConsistent ==
    (stats.pc = "done" /\ stats.reply.status = 200) =>
        LET data == Value(stats.reply.data)
        IN  /\ data.totalEssays = SumCounts(data.byLevel, DOMAIN data.byLevel)
            /\ \E db \in seen :
                  data = StatsData(CountDocuments(db, DOMAIN db), AvgScore(db),
                                   LevelStats(db))

=============================================================================
